---- MODULE Spec2Model ----
(***************************************************************************)
(* Call Center Analyzer: the combined S3-triggered Lambda handler          *)
(* (src/src/analyze/handler.py), the standalone transcribe handler         *)
(* (src/src/transcribe/handler.py) and the transcript formatter.           *)
(*                                                                         *)
(* Python strings are TLA+ strings: startswith, endswith, str.replace and  *)
(* slicing are computed on the characters, as Python computes them.        *)
(***************************************************************************)
EXTENDS Integers, Sequences, FiniteSets, TLC

(***************************************************************************)
(* Python str operations                                                   *)
(***************************************************************************)
Min(a, b) == IF a <= b THEN a ELSE b

\* a slip: `p in s` for s.startswith(p)
StartsWith_anywhere(s, p) ==
    \E k \in 1..(Len(s) - Len(p) + 1) : SubSeq(s, k, k + Len(p) - 1) = p

\* s.startswith(p)
StartsWith(s, p) == Len(p) <= Len(s) /\ SubSeq(s, 1, Len(p)) = p

\* a slip: `x in s` for s.endswith(x)
EndsWith_anywhere(s, x) ==
    \E k \in 1..(Len(s) - Len(x) + 1) : SubSeq(s, k, k + Len(x) - 1) = x

\* s.endswith(x)
EndsWith(s, x) == Len(x) <= Len(s) /\ SubSeq(s, Len(s) - Len(x) + 1, Len(s)) = x

\* s.find(old) + 1: the 1-based index of the first occurrence, 0 when none
Find(s, old) ==
    LET hits == {k \in 1..(Len(s) - Len(old) + 1) : SubSeq(s, k, k + Len(old) - 1) = old}
    IN  IF hits = {} THEN 0 ELSE CHOOSE k \in hits : \A j \in hits : k <= j

\* s.replace(old, new, n) for a non-empty old: the first n occurrences, left
\* to right, not overlapping
RECURSIVE ReplaceN(_, _, _, _)
ReplaceN(s, old, new, n) ==
    IF n = 0 THEN s
    ELSE LET k == Find(s, old)
         IN  IF k = 0 THEN s
             ELSE SubSeq(s, 1, k - 1) \o new
                  \o ReplaceN(SubSeq(s, k + Len(old), Len(s)), old, new, n - 1)

\* s.replace(old, new): every occurrence
ReplaceAll(s, old, new) == ReplaceN(s, old, new, Len(s))

\* s[:n]
Slice(s, n) == SubSeq(s, 1, Min(n, Len(s)))

\* optional values: a dict key that is absent, or a Python None
None == <<>>
Some(v) == <<v>>
IsSome(o) == o # <<>>
Val(o) == o[1]

(***************************************************************************)
(* Module constants of the combined handler                                *)
(***************************************************************************)
TRANSCRIBE_DIR == "recordings/"
TRANSCRIBE_EXT == ".mp3"
ANALYZE_DIR == "transcripts/"
ANALYZE_EXT == ".json"
OUTPUT_DIR == "output/"
OUTPUT_EXT == ".txt"

\* a slip: every event name handled
handled_event_names_any ==
    {"ObjectCreated:Copy", "ObjectCreated:Put", "ObjectRemoved:Delete"}

handled_event_names == {"ObjectCreated:Copy", "ObjectCreated:Put"}

\* Subject=subject[:100]
SubjectMax == 100

(***************************************************************************)
(* format_content                                                          *)
(*                                                                         *)
(* An item is a record of optional fields.  start_time, when present, is   *)
(* [num, s]: a number or a string, s its str() rendering.  alternatives,   *)
(* when present, is a list of optional contents (a dict without 'content'  *)
(* is None).                                                               *)
(***************************************************************************)
\* bool(v) of a start_time value: 0 and 0.0 and '' are falsy
Truthy(o) ==
    /\ IsSome(o)
    /\ IF Val(o).num THEN Val(o).s \notin {"0", "0.0"} ELSE Val(o).s # ""

\* item['alternatives'][0]['content']: [ok, v]; not ok is KeyError/IndexError
FirstContent(item) ==
    IF /\ IsSome(item.alternatives)
       /\ Len(Val(item.alternatives)) >= 1
       /\ IsSome(Val(item.alternatives)[1])
    THEN [ok |-> TRUE, v |-> Val(Val(item.alternatives)[1])]
    ELSE [ok |-> FALSE, v |-> ""]

\* a slip: an item whose field is missing is skipped, the loop goes on
FormatStep_skips(st, item) ==
    LET c == FirstContent(item)
    IN  IF Truthy(item.start_time)
        THEN IF ~IsSome(item.speaker_label) \/ ~c.ok THEN st
             ELSE IF Val(item.speaker_label) = st.mrs
             THEN [st EXCEPT !.line = st.line \o " " \o c.v]
             ELSE [ok |-> TRUE,
                   lines |-> Append(st.lines, st.line \o "\n\n"),
                   line |-> Val(item.start_time).s \o "\t"
                            \o Val(item.speaker_label) \o "\t" \o c.v,
                   mrs |-> Val(item.speaker_label)]
        ELSE IF IsSome(item.type) /\ Val(item.type) = "punctuation" /\ c.ok
        THEN [st EXCEPT !.line = st.line \o c.v]
        ELSE st

\* the loop body for one item, on the loop state [ok, lines, line, mrs]
\* (mrs: most_recent_speaker); ok = FALSE once an exception was raised
FormatStep(st, item) ==
    LET c == FirstContent(item)
        failed == [st EXCEPT !.ok = FALSE]
    IN  IF ~st.ok THEN st
        ELSE IF Truthy(item.start_time)
        THEN IF ~IsSome(item.speaker_label) THEN failed
             ELSE IF Val(item.speaker_label) = st.mrs
             THEN IF c.ok THEN [st EXCEPT !.line = st.line \o " " \o c.v]
                  ELSE failed
             ELSE IF c.ok
                  THEN [ok |-> TRUE,
                        lines |-> Append(st.lines, st.line \o "\n\n"),
                        line |-> Val(item.start_time).s \o "\t"
                                 \o Val(item.speaker_label) \o "\t" \o c.v,
                        mrs |-> Val(item.speaker_label)]
                  \* the f-string raises after lines.append and the
                  \* most_recent_speaker assignment; the result is discarded
                  ELSE failed
        ELSE IF ~IsSome(item.type) THEN failed
        ELSE IF Val(item.type) = "punctuation"
        THEN IF c.ok THEN [st EXCEPT !.line = st.line \o c.v] ELSE failed
        ELSE st

RECURSIVE FormatLoop(_, _)
FormatLoop(st, items) ==
    IF items = <<>> THEN st
    ELSE FormatLoop(FormatStep(st, Head(items)), Tail(items))

RECURSIVE JoinLines(_)
JoinLines(lines) ==
    IF lines = <<>> THEN "" ELSE Head(lines) \o JoinLines(Tail(lines))

\* a slip: the last line flushed like the others, with its two newlines
format_content_flush(data) ==
    IF data.top # "dict" \/ ~IsSome(data.results) \/ ~IsSome(Val(data.results).items)
    THEN ""
    ELSE LET st == FormatLoop([ok |-> TRUE, lines |-> <<>>, line |-> "",
                               mrs |-> "spk_1"],
                              Val(Val(data.results).items))
         IN  IF st.ok THEN JoinLines(Append(st.lines, st.line \o "\n\n")) ELSE ""

\* data is the parsed JSON: [top, results]; results, when present, is
\* [language_code, items], each optional.  top says what json.loads gave:
\* "dict" a dict, "dict_results_other" a dict whose 'results' is not a dict
\* (a list, a string, null), "other" anything that is not a dict
format_content(data) ==
    IF data.top # "dict" \/ ~IsSome(data.results) \/ ~IsSome(Val(data.results).items)
    THEN ""
    ELSE LET st == FormatLoop([ok |-> TRUE, lines |-> <<>>, line |-> "",
                               mrs |-> "spk_1"],
                              Val(Val(data.results).items))
         IN  IF st.ok THEN JoinLines(Append(st.lines, st.line)) ELSE ""

(***************************************************************************)
(* instructions.get_instructions: the template, its fixed text shortened,  *)
(* with the language code at the two places the template names it          *)
(***************************************************************************)
get_instructions(language_code) ==
    "3. Analyze the conversation made in " \o language_code
    \o " and, if needed, translate it to English.\n"
    \o "Here is the transcribed conversation in " \o language_code \o ":\n"

(***************************************************************************)
(* The universe of inputs                                                  *)
(***************************************************************************)
\* the invocations of one behaviour: each runs one trigger event to its end
Inv == {"i1"}

\* the two deployed Lambda functions
Progs == {"combined", "standalone"}

\* a tail of 90 characters: a key with it makes a subject longer than 100
LongTail ==
    "0123456789012345678901234567890123456789012345678901234567890123456789"
    \o "01234567890123456789"

Dirs == {TRANSCRIBE_DIR, ANALYZE_DIR, OUTPUT_DIR, "other/"}
Exts == {TRANSCRIBE_EXT, ANALYZE_EXT, OUTPUT_EXT}
Tails == {"a", "a.mp3.old", "a.json.old", "a.txt.old",
          "x/recordings/y", "x/transcripts/y", "x/output/y", LongTail}

Keys == {d \o t \o e : d \in Dirs, t \in Tails, e \in Exts}
        \cup {"a.mp3", "x/recordings/a.mp3", ""}

EventNames == {"ObjectCreated:Put", "ObjectCreated:Copy", "ObjectRemoved:Delete"}

\* the shape of the trigger event: well formed, or the first thing missing,
\* or a Records list that is empty
KeyErrorShapes == {"noRecords", "noEventName", "noS3", "noBucket",
                   "noBucketName", "noObject", "noKey"}
EventShapes == {"ok", "emptyRecords"} \cup KeyErrorShapes

Events == [shape : EventShapes, eventName : EventNames, bucket : {"b"}, key : Keys]

\* transcript items
StartOf(t) == Some([num |-> FALSE, s |-> t])
Spoken(t, spk, c) ==
    [start_time |-> StartOf(t), speaker_label |-> Some(spk),
     alternatives |-> Some(<<Some(c), Some("alt2")>>), type |-> Some("pronunciation")]
Punct(c) ==
    [start_time |-> None, speaker_label |-> None,
     alternatives |-> Some(<<Some(c)>>), type |-> Some("punctuation")]

WellFormedItems ==
    {Spoken("1.0", "spk_0", "hello"), Spoken("2.5", "spk_0", "you"),
     Spoken("3.0", "spk_1", "hi"), Spoken("4.5", "spk_1", "there"),
     Spoken("6.0", "spk_2", "yes"), Punct("."), Punct(",")}

\* items that break the expected shape: a numeric start_time of 0, a spoken
\* item without type, items without alternatives, content, speaker or type,
\* an item that is neither spoken nor punctuation
OddItems ==
    {[Spoken("0", "spk_0", "zero") EXCEPT !.start_time = Some([num |-> TRUE, s |-> "0"])],
     [Spoken("7.0", "spk_0", "untyped") EXCEPT !.type = None],
     [Spoken("7.0", "spk_0", "x") EXCEPT !.alternatives = None],
     [Spoken("7.0", "spk_1", "x") EXCEPT !.alternatives = Some(<<>>)],
     [Spoken("7.0", "spk_0", "x") EXCEPT !.alternatives = Some(<<None>>)],
     [Spoken("7.0", "spk_0", "x") EXCEPT !.speaker_label = None],
     [Punct("!") EXCEPT !.type = None],
     [Punct("!") EXCEPT !.alternatives = None],
     [Punct("!") EXCEPT !.type = Some("pronunciation")],
     [Punct("!") EXCEPT !.type = Some("pronunciation"), !.alternatives = None]}

Dict(lc, items) ==
    [top |-> "dict", results |-> Some([language_code |-> lc, items |-> items])]

\* the parsed transcripts an object of the bucket may hold
GoodTranscript ==
    Dict(Some("en-US"), Some(<<Spoken("1.0", "spk_0", "hello"), Punct("."),
                               Spoken("3.0", "spk_1", "hi")>>))
Transcripts ==
    {GoodTranscript,
     Dict(None, Some(<<Spoken("1.0", "spk_0", "hello")>>)),
     Dict(Some("lt-LT"), Some(<<>>)),
     Dict(Some("lt-LT"), None),
     Dict(Some("en-US"), Some(<<Spoken("1.0", "spk_0", "hello"),
                                [Punct("!") EXCEPT !.alternatives = None]>>)),
     [top |-> "dict", results |-> None],
     [top |-> "dict_results_other", results |-> None],
     [top |-> "other", results |-> None]}

\* an object's content: bytes that do not decode as UTF-8, text that is not
\* JSON, or JSON text with the value it parses to
NoData == [top |-> "other", results |-> None]
Contents ==
    {[kind |-> "bytes", text |-> "", data |-> NoData],
     [kind |-> "text", text |-> "1. Sentiment: good", data |-> NoData]}
    \cup {[kind |-> "json", text |-> "{json}", data |-> t] : t \in Transcripts}

\* the process configuration (os.environ) of a deployment
DefaultEnv ==
    [OUTPUTNOTIFICATIONTOPIC_TOPIC_ARN |-> Some("arn:aws:sns:topic"),
     TRANSCRIBEBUCKET_BUCKET_NAME |-> Some("out-bucket"),
     SUMMARY_INSTRUCTIONS |-> None,
     BEDROCK_MODEL_ID |-> None]
Envs ==
    {DefaultEnv,
     [DefaultEnv EXCEPT !.OUTPUTNOTIFICATIONTOPIC_TOPIC_ARN = None],
     [DefaultEnv EXCEPT !.OUTPUTNOTIFICATIONTOPIC_TOPIC_ARN = Some("")],
     [DefaultEnv EXCEPT !.TRANSCRIBEBUCKET_BUCKET_NAME = None],
     [DefaultEnv EXCEPT !.SUMMARY_INSTRUCTIONS = Some("Summarize."),
                        !.BEDROCK_MODEL_ID = Some("model-x")]}

\* str(e) of a raised exception
ErrText == "boom"

\* str(statusCode)
StatusStr(n) ==
    CASE n = 200 -> "200" [] n = 400 -> "400" [] n = 500 -> "500" [] OTHER -> "0"

Envelope(code, body) == [statusCode |-> code, body |-> body]
NoEnvelope == Envelope(0, "")

\* the outcome of a handler: nothing yet, a returned envelope, or an
\* exception that left the handler uncaught
NoOutcome == [kind |-> "none", value |-> NoEnvelope]
Returned(envelope) == [kind |-> "return", value |-> envelope]
Raised(what) == [kind |-> "raise", value |-> Envelope(0, what)]

\* one entry of an invocation's trace of calls
Call(op, key, subject, body) ==
    [op |-> op, key |-> key, subject |-> subject, body |-> body]

(***************************************************************************)
(* State                                                                   *)
(***************************************************************************)
VARIABLES
    env,        \* os.environ of the deployment
    bucket,     \* the storage bucket: key -> content, for the keys it holds
    prog,       \* per invocation: which Lambda function runs
    pc,         \* per invocation: the position in the code
    event,      \* per invocation: the trigger event
    response,   \* per invocation: handler's `response` (the stage's envelope)
    ret,        \* per invocation: how the handler ended
    calls,      \* per invocation: the calls made so far, in order
    output_s3_key,              \* transcribe, analyze: the derived key
    original_input_s3_key,      \* notify: the reconstructed recording key
    json_data,                  \* analyze: the parsed transcript
    speaker_formatted_content,  \* analyze: format_content's result
    analyzer_response,          \* analyze: the model's answer, when it has one
    sn,         \* send_notification's frame: [caller, subject, message, result]
    fmt_in,     \* the formatter alone: its input
    fmt_out     \* the formatter alone: [done, out]

control == <<pc, response, ret>>
stageLocals == <<output_s3_key, original_input_s3_key, json_data,
                 speaker_formatted_content, analyzer_response>>
locals == <<stageLocals, sn>>
fmtVars == <<fmt_in, fmt_out>>
fixed == <<env, prog, event, fmtVars>>
vars == <<env, bucket, prog, event, control, calls, locals, fmtVars>>

NoFrame == [caller |-> "", subject |-> "", message |-> "", result |-> NoEnvelope]
NoFmtOut == [done |-> FALSE, out |-> ""]
NoEvent == [shape |-> "noRecords", eventName |-> "", bucket |-> "", key |-> ""]

\* the bucket after put(key, content)
Put(b, key, content) ==
    [k \in DOMAIN b \cup {key} |-> IF k = key THEN content ELSE b[k]]

EmptyBucket == [k \in {} |-> NoData]

Init ==
    /\ env \in Envs
    /\ bucket = EmptyBucket
    /\ prog = [i \in Inv |-> "combined"]
    /\ pc = [i \in Inv |-> "idle"]
    /\ event = [i \in Inv |-> NoEvent]
    /\ response = [i \in Inv |-> NoEnvelope]
    /\ ret = [i \in Inv |-> NoOutcome]
    /\ calls = [i \in Inv |-> <<>>]
    /\ output_s3_key = [i \in Inv |-> ""]
    /\ original_input_s3_key = [i \in Inv |-> ""]
    /\ json_data = [i \in Inv |-> NoData]
    /\ speaker_formatted_content = [i \in Inv |-> ""]
    /\ analyzer_response = [i \in Inv |-> None]
    /\ sn = [i \in Inv |-> NoFrame]
    /\ fmt_in = NoData
    /\ fmt_out = NoFmtOut

(***************************************************************************)
(* Steps shared by the actions                                             *)
(***************************************************************************)
Log(i, cs) == calls' = [calls EXCEPT ![i] = @ \o cs]

\* go on at label l
Goto(i, l) ==
    /\ pc' = [pc EXCEPT ![i] = l]
    /\ UNCHANGED <<response, ret>>

\* the handler ends: it returns an envelope, or an exception leaves it
Finish(i, outcome) ==
    /\ ret' = [ret EXCEPT ![i] = outcome]
    /\ pc' = [pc EXCEPT ![i] = "done"]
    /\ UNCHANGED response

\* a stage handler returns its envelope to handler (lines 538, 540, 542)
StageReturns(i, envelope) ==
    /\ response' = [response EXCEPT ![i] = envelope]
    /\ pc' = [pc EXCEPT ![i] = "handler_check"]
    /\ UNCHANGED ret

ServerError(msg) == Envelope(500, "Internal server error: " \o msg)

\* the object the bucket holds at key, if any
Fetch(key) == IF key \in DOMAIN bucket THEN Some(bucket[key]) ELSE None

(***************************************************************************)
(* The hosting runtime delivers one trigger event to a Lambda function.    *)
(* For a well-formed event the bucket holds the object it names, or the    *)
(* object is gone again by the time the function reads it.                 *)
(***************************************************************************)
Trigger(i) ==
    /\ pc[i] = "idle"
    /\ \E p \in Progs, ev \in Events, obj \in {None} \cup {Some(c) : c \in Contents} :
        /\ prog' = [prog EXCEPT ![i] = p]
        /\ event' = [event EXCEPT ![i] = ev]
        /\ bucket' = IF ev.shape = "ok" /\ IsSome(obj)
                     THEN Put(bucket, ev.key, Val(obj))
                     ELSE bucket
        /\ Goto(i, IF p = "combined" THEN "handler" ELSE "standalone")
    /\ UNCHANGED <<env, calls, locals, fmtVars>>

(***************************************************************************)
(* handler(event, context), lines 521-555: read the event, route by prefix *)
(***************************************************************************)
\* a slip: eventName read with a default, so its absence is no KeyError
parse_event_lenient(ev) ==
    IF ev.shape = "emptyRecords" THEN "IndexError"
    ELSE IF ev.shape \in KeyErrorShapes \ {"noEventName"} THEN "KeyError"
    ELSE "ok"

\* lines 523-527: the three reads of the event inside try/except KeyError;
\* event['Records'][0] of an empty list raises IndexError, which is not caught
parse_event(ev) ==
    IF ev.shape = "emptyRecords" THEN "IndexError"
    ELSE IF ev.shape \in KeyErrorShapes THEN "KeyError"
    ELSE "ok"

handler(i) ==
    /\ pc[i] = "handler"
    /\ LET ev == event[i] IN
       IF parse_event(ev) = "IndexError"
       THEN /\ Finish(i, Raised("IndexError"))
            /\ UNCHANGED calls
       ELSE IF parse_event(ev) = "KeyError"
       THEN /\ Finish(i, Returned(Envelope(400, "Invalid event data")))
            /\ UNCHANGED calls
       ELSE IF ev.eventName \in handled_event_names
       THEN IF StartsWith(ev.key, TRANSCRIBE_DIR)
            THEN /\ Goto(i, "transcribe")
                 /\ Log(i, <<Call("transcribe", ev.key, "", "")>>)
            ELSE IF StartsWith(ev.key, ANALYZE_DIR)
            THEN /\ Goto(i, "analyze")
                 /\ Log(i, <<Call("analyze", ev.key, "", "")>>)
            ELSE IF StartsWith(ev.key, OUTPUT_DIR)
            THEN /\ Goto(i, "notify")
                 /\ Log(i, <<Call("notify", ev.key, "", "")>>)
            ELSE /\ Finish(i, Returned(Envelope(400, "Invalid file path")))
                 /\ UNCHANGED calls
       ELSE /\ Finish(i, Returned(Envelope(200, "Skipped")))
            /\ UNCHANGED calls
    /\ UNCHANGED <<fixed, bucket, locals>>

(***************************************************************************)
(* transcribe(input_s3_bucket, input_s3_key), lines 50-115                 *)
(***************************************************************************)
\* a slip: the directory is left as it is
transcribe_output_key_samedir(input_s3_key) ==
    ReplaceAll(input_s3_key, TRANSCRIBE_EXT, ANALYZE_EXT)

\* lines 64-65
transcribe_output_key(input_s3_key) ==
    ReplaceAll(ReplaceN(input_s3_key, TRANSCRIBE_DIR, ANALYZE_DIR, 1),
               TRANSCRIBE_EXT, ANALYZE_EXT)

\* lines 52-67: the extension check, the job name, the output key
transcribe(i) ==
    /\ pc[i] = "transcribe"
    /\ IF ~EndsWith(event[i].key, TRANSCRIBE_EXT)
       THEN /\ StageReturns(i, Envelope(400, "Invalid file type"))
            /\ UNCHANGED <<calls, output_s3_key>>
       ELSE /\ Log(i, <<Call("uuid4", "", "", "")>>)
            /\ output_s3_key' = [output_s3_key EXCEPT ![i] = transcribe_output_key(event[i].key)]
            /\ Goto(i, "transcribe_client")
    /\ UNCHANGED <<fixed, bucket, original_input_s3_key, json_data,
                   speaker_formatted_content, analyzer_response, sn>>

\* lines 70-77: boto3.client('transcribe')
transcribe_client(i) ==
    /\ pc[i] = "transcribe_client"
    /\ Log(i, <<Call("client", "transcribe", "", "")>>)
    /\ \/ Goto(i, "transcribe_start")
       \/ StageReturns(i, ServerError("Error creating Amazon Transcribe client: " \o ErrText))
    /\ UNCHANGED <<fixed, bucket, locals>>

\* lines 83-115: start_transcription_job, once
transcribe_start(i) ==
    /\ pc[i] = "transcribe_start"
    /\ Log(i, <<Call("start_transcription_job", output_s3_key[i], "",
                     "s3://" \o event[i].bucket \o "/" \o event[i].key)>>)
    /\ \/ StageReturns(i, Envelope(200, "OK"))
       \/ StageReturns(i, ServerError("Error starting transcription job: " \o ErrText))
    /\ UNCHANGED <<fixed, bucket, locals>>

(***************************************************************************)
(* analyze(input_s3_bucket, input_s3_key), lines 220-373                   *)
(***************************************************************************)
\* a slip: the directory is left as it is, the output lands in transcripts/
analyze_output_key_samedir(input_s3_key) ==
    ReplaceAll(input_s3_key, ANALYZE_EXT, OUTPUT_EXT)

\* lines 234-235
analyze_output_key(input_s3_key) ==
    ReplaceAll(ReplaceN(input_s3_key, ANALYZE_DIR, OUTPUT_DIR, 1),
               ANALYZE_EXT, OUTPUT_EXT)

\* lines 223-236: the extension check, the output key
analyze(i) ==
    /\ pc[i] = "analyze"
    /\ IF ~EndsWith(event[i].key, ANALYZE_EXT)
       THEN /\ StageReturns(i, Envelope(400, "Invalid file type"))
            /\ UNCHANGED output_s3_key
       ELSE /\ output_s3_key' = [output_s3_key EXCEPT ![i] = analyze_output_key(event[i].key)]
            /\ Goto(i, "analyze_resource")
    /\ UNCHANGED <<fixed, bucket, calls, original_input_s3_key, json_data,
                   speaker_formatted_content, analyzer_response, sn>>

\* lines 239-254: boto3.resource('s3') and s3.Object(bucket, key)
analyze_resource(i) ==
    /\ pc[i] = "analyze_resource"
    /\ \/ /\ Log(i, <<Call("resource", "s3", "", "")>>)
          /\ StageReturns(i, ServerError("Error creating Amazon S3 client: " \o ErrText))
       \/ /\ Log(i, <<Call("resource", "s3", "", ""), Call("Object", event[i].key, "", "")>>)
          /\ StageReturns(i, ServerError("Error reading input file: " \o ErrText))
       \/ /\ Log(i, <<Call("resource", "s3", "", ""), Call("Object", event[i].key, "", "")>>)
          /\ Goto(i, "analyze_get")
    /\ UNCHANGED <<fixed, bucket, locals>>

\* lines 255-263: obj.get()['Body'].read().decode('utf-8'), json.loads
analyze_get(i) ==
    /\ pc[i] = "analyze_get"
    /\ Log(i, <<Call("get", event[i].key, "", "")>>)
    /\ LET obj == Fetch(event[i].key) IN
       \/ /\ IsSome(obj)
          /\ Val(obj).kind = "json"
          /\ json_data' = [json_data EXCEPT ![i] = Val(obj).data]
          /\ Goto(i, "analyze_language")
       \/ \* no such key, a failed read, bytes that do not decode, text that
          \* is not JSON
          /\ StageReturns(i, ServerError("Error decoding input file: " \o ErrText))
          /\ UNCHANGED json_data
    /\ UNCHANGED <<fixed, bucket, output_s3_key, original_input_s3_key,
                   speaker_formatted_content, analyzer_response, sn>>

\* lines 266-284: json_data['results']['language_code'], format_content
analyze_language(i) ==
    /\ pc[i] = "analyze_language"
    /\ IF json_data[i].top # "dict"
       THEN \* json_data, or json_data['results'], is a list, string, number
            \* or null: subscripting it raises TypeError; only KeyError is
            \* caught
            /\ Finish(i, Raised("TypeError"))
            /\ UNCHANGED speaker_formatted_content
       ELSE IF ~IsSome(json_data[i].results) \/ ~IsSome(Val(json_data[i].results).language_code)
       THEN /\ StageReturns(i, ServerError("Error getting language code"))
            /\ UNCHANGED speaker_formatted_content
       ELSE LET content == format_content(json_data[i]) IN
            /\ speaker_formatted_content' = [speaker_formatted_content EXCEPT ![i] = content]
            /\ IF content = ""
               THEN StageReturns(i, ServerError("Error formatting content"))
               ELSE Goto(i, "analyze_client")
    /\ UNCHANGED <<fixed, bucket, calls, output_s3_key, original_input_s3_key,
                   json_data, analyzer_response, sn>>

\* lines 287-300: boto3.client('bedrock-runtime', config=config)
analyze_client(i) ==
    /\ pc[i] = "analyze_client"
    /\ Log(i, <<Call("client", "bedrock-runtime", "", "")>>)
    /\ \/ Goto(i, "analyze_invoke")
       \/ StageReturns(i, ServerError("Error creating Amazon Bedrock client: " \o ErrText))
    /\ UNCHANGED <<fixed, bucket, locals>>

\* line 303: os.getenv('SUMMARY_INSTRUCTIONS', get_instructions(language_code))
SUMMARY_INSTRUCTIONS(i) ==
    IF IsSome(env.SUMMARY_INSTRUCTIONS) THEN Val(env.SUMMARY_INSTRUCTIONS)
    ELSE get_instructions(Val(Val(json_data[i].results).language_code))

\* line 308
BEDROCK_MODEL_ID ==
    IF IsSome(env.BEDROCK_MODEL_ID) THEN Val(env.BEDROCK_MODEL_ID)
    ELSE "anthropic.claude-3-sonnet-20240229-v1:0"

\* a slip: a failed invoke_model is tried again
analyze_invoke_retry(i) ==
    /\ pc[i] = "analyze_invoke"
    /\ Log(i, <<Call("invoke_model", BEDROCK_MODEL_ID, "",
                     SUMMARY_INSTRUCTIONS(i) \o "\n" \o "<transcribe>\n"
                     \o speaker_formatted_content[i] \o "</transcribe>")>>)
    /\ \/ Goto(i, "analyze_decode")
       \/ Goto(i, "analyze_invoke")
    /\ UNCHANGED <<fixed, bucket, locals>>

\* lines 318-345: bedrock_client.invoke_model, once
analyze_invoke(i) ==
    /\ pc[i] = "analyze_invoke"
    /\ Log(i, <<Call("invoke_model", BEDROCK_MODEL_ID, "",
                     SUMMARY_INSTRUCTIONS(i) \o "\n" \o "<transcribe>\n"
                     \o speaker_formatted_content[i] \o "</transcribe>")>>)
    /\ \/ Goto(i, "analyze_decode")
       \/ StageReturns(i, ServerError("Error analyzing transcript: " \o ErrText))
    /\ UNCHANGED <<fixed, bucket, locals>>

\* the answers of the model: the text of content[0]
Answers == {"1. Sentiment and Quality Analysis: fine",
            "1. Sentiment and Quality Analysis: poor"}

\* lines 348-356: json.loads(response.get('body').read())
analyze_decode(i) ==
    /\ pc[i] = "analyze_decode"
    /\ \/ \E a \in {None} \cup {Some(t) : t \in Answers} :
            \* a decoded body with content[0].text, or without it
            /\ analyzer_response' = [analyzer_response EXCEPT ![i] = a]
            /\ Goto(i, "analyze_put")
       \/ /\ StageReturns(i, ServerError("Error decoding analyzer response: " \o ErrText))
          /\ UNCHANGED analyzer_response
    /\ UNCHANGED <<fixed, bucket, calls, output_s3_key, original_input_s3_key,
                   json_data, speaker_formatted_content, sn>>

\* a slip: the failed put is not reported
analyze_put_unreported(i) ==
    /\ pc[i] = "analyze_put"
    /\ IF ~IsSome(analyzer_response[i])
       THEN /\ Log(i, <<Call("Object", output_s3_key[i], "", "")>>)
            /\ StageReturns(i, ServerError("Error saving analyzer response: " \o ErrText))
            /\ UNCHANGED bucket
       ELSE LET body == Val(analyzer_response[i]) \o "\n\n4. Original Call Transcribe"
                        \o speaker_formatted_content[i] IN
            /\ Log(i, <<Call("Object", output_s3_key[i], "", ""),
                        Call("put", output_s3_key[i], "", body)>>)
            /\ \/ /\ bucket' = Put(bucket, output_s3_key[i],
                                   [kind |-> "text", text |-> body, data |-> NoData])
                  /\ StageReturns(i, Envelope(200, "OK"))
               \/ /\ UNCHANGED bucket
                  /\ StageReturns(i, Envelope(200, "OK"))
    /\ UNCHANGED <<fixed, locals>>

\* lines 359-373: obj.put(Body=answer + label + turn text)
analyze_put(i) ==
    /\ pc[i] = "analyze_put"
    /\ IF ~IsSome(analyzer_response[i])
       THEN \* analyzer_response['content'][0]['text'] raises before put
            /\ Log(i, <<Call("Object", output_s3_key[i], "", "")>>)
            /\ StageReturns(i, ServerError("Error saving analyzer response: " \o ErrText))
            /\ UNCHANGED bucket
       ELSE LET body == Val(analyzer_response[i]) \o "\n\n4. Original Call Transcribe"
                        \o speaker_formatted_content[i] IN
            /\ Log(i, <<Call("Object", output_s3_key[i], "", ""),
                        Call("put", output_s3_key[i], "", body)>>)
            /\ \/ /\ bucket' = Put(bucket, output_s3_key[i],
                                   [kind |-> "text", text |-> body, data |-> NoData])
                  /\ StageReturns(i, Envelope(200, "OK"))
               \/ /\ UNCHANGED bucket
                  /\ StageReturns(i, ServerError("Error saving analyzer response: " \o ErrText))
    /\ UNCHANGED <<fixed, locals>>

(***************************************************************************)
(* notify(input_s3_bucket, input_s3_key), lines 457-485                    *)
(***************************************************************************)
\* line 469
notify_original_key(input_s3_key) ==
    ReplaceAll(ReplaceN(input_s3_key, OUTPUT_DIR, "", 1), OUTPUT_EXT, TRANSCRIBE_EXT)

\* lines 459-470: the extension check, the original recording's key
notify(i) ==
    /\ pc[i] = "notify"
    /\ IF ~EndsWith(event[i].key, OUTPUT_EXT)
       THEN /\ StageReturns(i, Envelope(400, "Invalid file type"))
            /\ UNCHANGED original_input_s3_key
       ELSE /\ original_input_s3_key' =
                   [original_input_s3_key EXCEPT ![i] = notify_original_key(event[i].key)]
            /\ Goto(i, "notify_get")
    /\ UNCHANGED <<fixed, bucket, calls, output_s3_key, json_data,
                   speaker_formatted_content, analyzer_response, sn>>

\* line 477: the subject notify asks for
notify_subject(input_s3_key) == "Call Center Analyzer - " \o input_s3_key

\* lines 473-477: read the object as text, then call send_notification
notify_get(i) ==
    /\ pc[i] = "notify_get"
    /\ LET obj == Fetch(event[i].key)
           got == <<Call("resource", "s3", "", ""), Call("Object", event[i].key, "", ""),
                    Call("get", event[i].key, "", "")>> IN
       \/ /\ IsSome(obj)
          /\ Val(obj).kind # "bytes"
          /\ Log(i, got \o <<Call("send_notification", "notify",
                                  notify_subject(event[i].key), Val(obj).text)>>)
          /\ sn' = [sn EXCEPT ![i] = [caller |-> "notify",
                                      subject |-> notify_subject(event[i].key),
                                      message |-> Val(obj).text,
                                      result |-> NoEnvelope]]
          /\ Goto(i, "send_notification")
       \/ \* the except clause of lines 478-483
          /\ Log(i, got)
          /\ StageReturns(i, ServerError("Error reading input file: " \o ErrText))
          /\ UNCHANGED sn
    /\ UNCHANGED <<fixed, bucket, output_s3_key, original_input_s3_key, json_data,
                   speaker_formatted_content, analyzer_response>>

(***************************************************************************)
(* send_notification(subject, message), lines 400-426                      *)
(***************************************************************************)
\* a slip: handler returns what the fan-out came back with
SendNotificationReturns_replaces(i, envelope) ==
    /\ sn' = [sn EXCEPT ![i].result = envelope]
    /\ IF sn[i].caller = "notify"
       THEN StageReturns(i, envelope)
       ELSE Finish(i, Returned(envelope))

\* send_notification returns envelope to its caller: notify returns it
\* (line 485), handler drops it and returns the stage's envelope (line 559)
SendNotificationReturns(i, envelope) ==
    /\ sn' = [sn EXCEPT ![i].result = envelope]
    /\ IF sn[i].caller = "notify"
       THEN StageReturns(i, envelope)
       ELSE Finish(i, Returned(response[i]))

\* line 402: boto3.client('sns'), outside any try
send_notification(i) ==
    /\ pc[i] = "send_notification"
    /\ Log(i, <<Call("client", "sns", "", "")>>)
    /\ \/ Goto(i, "send_notification_publish")
       \/ IF sn[i].caller = "notify"
          THEN \* caught by notify's except clause
               StageReturns(i, ServerError("Error reading input file: " \o ErrText))
          ELSE \* nothing catches it in handler
               Finish(i, Raised("sns client"))
    /\ UNCHANGED <<fixed, bucket, locals>>

\* a slip: the subject passed on whole
publish_subject_whole(subject) == subject

\* line 408: Subject=subject[:100]
publish_subject(subject) == Slice(subject, SubjectMax)

\* lines 403-426: the topic from the environment, sns.publish
send_notification_publish(i) ==
    /\ pc[i] = "send_notification_publish"
    /\ LET arn == env.OUTPUTNOTIFICATIONTOPIC_TOPIC_ARN IN
       IF IsSome(arn) /\ Val(arn) # ""
       THEN /\ Log(i, <<Call("publish", Val(arn), publish_subject(sn[i].subject),
                             sn[i].message)>>)
            /\ \/ SendNotificationReturns(i, Envelope(200, "OK"))
               \/ SendNotificationReturns(i,
                      ServerError("Error sending text to SNS topic: " \o ErrText))
       ELSE /\ UNCHANGED calls
            /\ SendNotificationReturns(i,
                   ServerError("OUTPUTNOTIFICATIONTOPIC_TOPIC_ARN not set"))
    /\ UNCHANGED <<fixed, bucket, stageLocals>>

(***************************************************************************)
(* handler, lines 557-561: the fan-out on a failing envelope               *)
(***************************************************************************)
\* a slip: the subject without the key
fanout_subject_nokey(ev) == "Error processing file: s3://" \o ev.bucket

\* a slip: the fan-out on statusCode 500 alone
NeedsFanout_500(envelope) == envelope.statusCode = 500

\* line 558: the subject and the message of the fan-out
fanout_subject(ev) == "Error processing file: s3://" \o ev.bucket \o "/" \o ev.key
fanout_message(envelope) ==
    "status code " \o StatusStr(envelope.statusCode) \o "/n" \o envelope.body

\* the test that sends the fan-out
NeedsFanout(envelope) == envelope.statusCode # 200

handler_check(i) ==
    /\ pc[i] = "handler_check"
    /\ IF NeedsFanout(response[i])
       THEN /\ Log(i, <<Call("send_notification", "handler",
                             fanout_subject(event[i]), fanout_message(response[i]))>>)
            /\ sn' = [sn EXCEPT ![i] = [caller |-> "handler",
                                        subject |-> fanout_subject(event[i]),
                                        message |-> fanout_message(response[i]),
                                        result |-> NoEnvelope]]
            /\ Goto(i, "send_notification")
       ELSE /\ Finish(i, Returned(response[i]))
            /\ UNCHANGED <<calls, sn>>
    /\ UNCHANGED <<fixed, bucket, output_s3_key, original_input_s3_key, json_data,
                   speaker_formatted_content, analyzer_response>>

(***************************************************************************)
(* The standalone transcribe Lambda: handler(event, context) of            *)
(* src/src/transcribe/handler.py                                           *)
(***************************************************************************)
\* line 44
standalone_output_key(input_s3_key) == ReplaceAll(input_s3_key, ".mp3", ".txt")

\* lines 13-46: the event, the extension check, the output bucket, the key
\* lines 13-16: the two reads of the event; eventName is not read
standalone_parse_event(ev) ==
    IF ev.shape = "emptyRecords" THEN "IndexError"
    ELSE IF ev.shape \in KeyErrorShapes \ {"noEventName"} THEN "KeyError"
    ELSE "ok"

standalone(i) ==
    /\ pc[i] = "standalone"
    /\ LET ev == event[i] IN
       IF standalone_parse_event(ev) = "IndexError"
       THEN /\ Finish(i, Raised("IndexError"))
            /\ UNCHANGED <<calls, output_s3_key>>
       ELSE IF standalone_parse_event(ev) = "KeyError"
       THEN /\ Finish(i, Returned(Envelope(400, "Invalid event data")))
            /\ UNCHANGED <<calls, output_s3_key>>
       ELSE IF ~EndsWith(ev.key, ".mp3")
       THEN /\ Finish(i, Returned(Envelope(400, "Invalid file type")))
            /\ UNCHANGED <<calls, output_s3_key>>
       ELSE IF ~IsSome(env.TRANSCRIBEBUCKET_BUCKET_NAME)
       THEN /\ Finish(i, Returned(ServerError(
                   "Environment variable TRANSCRIBEBUCKET_BUCKET_NAME not set")))
            /\ UNCHANGED <<calls, output_s3_key>>
       ELSE /\ Log(i, <<Call("uuid4", "", "", "")>>)
            /\ output_s3_key' = [output_s3_key EXCEPT ![i] = standalone_output_key(ev.key)]
            /\ Goto(i, "standalone_client")
    /\ UNCHANGED <<fixed, bucket, original_input_s3_key, json_data,
                   speaker_formatted_content, analyzer_response, sn>>

\* lines 49-56: boto3.client('transcribe')
standalone_client(i) ==
    /\ pc[i] = "standalone_client"
    /\ Log(i, <<Call("client", "transcribe", "", "")>>)
    /\ \/ Goto(i, "standalone_start")
       \/ Finish(i, Returned(ServerError("Error creating Amazon Transcribe client")))
    /\ UNCHANGED <<fixed, bucket, locals>>

\* lines 62-86: start_transcription_job; the body returned on success is the
\* service's response
standalone_start(i) ==
    /\ pc[i] = "standalone_start"
    /\ Log(i, <<Call("start_transcription_job", output_s3_key[i], "",
                     "s3://" \o event[i].bucket \o "/" \o event[i].key)>>)
    /\ \/ Finish(i, Returned(Envelope(200, "{TranscriptionJob}")))
       \/ Finish(i, Returned(ServerError("Error starting transcription job")))
    /\ UNCHANGED <<fixed, bucket, locals>>

(***************************************************************************)
(* The Lambda functions, one trigger event per invocation                  *)
(***************************************************************************)
Next ==
    \E i \in Inv :
        \/ Trigger(i)
        \/ handler(i)
        \/ transcribe(i)
        \/ transcribe_client(i)
        \/ transcribe_start(i)
        \/ analyze(i)
        \/ analyze_resource(i)
        \/ analyze_get(i)
        \/ analyze_language(i)
        \/ analyze_client(i)
        \/ analyze_invoke(i)
        \/ analyze_decode(i)
        \/ analyze_put(i)
        \/ notify(i)
        \/ notify_get(i)
        \/ send_notification(i)
        \/ send_notification_publish(i)
        \/ handler_check(i)
        \/ standalone(i)
        \/ standalone_client(i)
        \/ standalone_start(i)

Spec == Init /\ [][Next]_vars

(***************************************************************************)
(* format_content alone, on every list of at most MaxItems items           *)
(***************************************************************************)
MaxItems == 3

FmtItems == WellFormedItems \cup OddItems
ItemLists == UNION {[1..n -> FmtItems] : n \in 0..MaxItems}

InitFormat ==
    /\ env = DefaultEnv
    /\ bucket = EmptyBucket
    /\ prog = [i \in Inv |-> "combined"]
    /\ pc = [i \in Inv |-> "idle"]
    /\ event = [i \in Inv |-> NoEvent]
    /\ response = [i \in Inv |-> NoEnvelope]
    /\ ret = [i \in Inv |-> NoOutcome]
    /\ calls = [i \in Inv |-> <<>>]
    /\ output_s3_key = [i \in Inv |-> ""]
    /\ original_input_s3_key = [i \in Inv |-> ""]
    /\ json_data = [i \in Inv |-> NoData]
    /\ speaker_formatted_content = [i \in Inv |-> ""]
    /\ analyzer_response = [i \in Inv |-> None]
    /\ sn = [i \in Inv |-> NoFrame]
    /\ fmt_in \in {Dict(Some("en-US"), Some(items)) : items \in ItemLists}
    /\ fmt_out = NoFmtOut

\* speaker_formatted_content = format_content(json_data)
Format ==
    /\ ~fmt_out.done
    /\ fmt_out' = [done |-> TRUE, out |-> format_content(fmt_in)]
    /\ UNCHANGED <<env, bucket, prog, event, control, calls, locals, fmt_in>>

SpecFormat == InitFormat /\ [][Format]_vars

(***************************************************************************)
(* The analyze stage alone: one invocation of handler, delivered for a     *)
(* transcript whose item list is any list of at most MaxAnalyzeItems       *)
(* items, with or without a language code                                  *)
(***************************************************************************)
MaxAnalyzeItems == 2

AnalyzeItemLists == UNION {[1..n -> FmtItems] : n \in 0..MaxAnalyzeItems}

TranscriptKey == "transcripts/a.json"
PutEvent(key) ==
    [shape |-> "ok", eventName |-> "ObjectCreated:Put", bucket |-> "b", key |-> key]

JsonObject(data) == [kind |-> "json", text |-> "{json}", data |-> data]

\* the invocations I, each at label l of the combined handler with event ev
Invocations(I, l, ev) ==
    /\ prog = [i \in I |-> "combined"]
    /\ pc = [i \in I |-> l]
    /\ event = [i \in I |-> ev]
    /\ response = [i \in I |-> NoEnvelope]
    /\ ret = [i \in I |-> NoOutcome]
    /\ calls = [i \in I |-> <<>>]
    /\ output_s3_key = [i \in I |-> ""]
    /\ original_input_s3_key = [i \in I |-> ""]
    /\ json_data = [i \in I |-> NoData]
    /\ speaker_formatted_content = [i \in I |-> ""]
    /\ analyzer_response = [i \in I |-> None]
    /\ sn = [i \in I |-> NoFrame]
    /\ fmt_in = NoData
    /\ fmt_out = NoFmtOut

InitAnalyze ==
    /\ env = DefaultEnv
    /\ \E lc \in {None, Some("en-US")}, items \in AnalyzeItemLists :
            bucket = Put(EmptyBucket, TranscriptKey, JsonObject(Dict(lc, Some(items))))
    /\ Invocations(Inv, "handler", PutEvent(TranscriptKey))

\* the steps of an invocation routed to analyze
AnalyzeStep(i) ==
    \/ handler(i)
    \/ analyze(i)
    \/ analyze_resource(i)
    \/ analyze_get(i)
    \/ analyze_language(i)
    \/ analyze_client(i)
    \/ analyze_invoke(i)
    \/ analyze_decode(i)
    \/ analyze_put(i)
    \/ handler_check(i)
    \/ send_notification(i)
    \/ send_notification_publish(i)

NextAnalyze == \E i \in Inv : AnalyzeStep(i)

SpecAnalyze == InitAnalyze /\ [][NextAnalyze]_vars

(***************************************************************************)
(* Two invocations of handler delivered for the same transcript key: the   *)
(* hosting runtime runs them concurrently, on one bucket                   *)
(***************************************************************************)
Inv2 == {"i1", "i2"}

\* the tails t of the transcript keys transcripts/<t>.json
TranscriptTails == {"a", "a.json.old", "x/transcripts/y"}

InitConcurrent ==
    /\ env = DefaultEnv
    /\ \E t \in TranscriptTails :
          LET key == ANALYZE_DIR \o t \o ANALYZE_EXT IN
          /\ bucket = Put(EmptyBucket, key, JsonObject(GoodTranscript))
          /\ Invocations(Inv2, "handler", PutEvent(key))

NextConcurrent == \E i \in Inv2 : AnalyzeStep(i)

SpecConcurrent == InitConcurrent /\ [][NextConcurrent]_vars

(***************************************************************************)
(* The pipeline: a recording is uploaded, each object written to the       *)
(* bucket produces an object-created event that the hosting runtime        *)
(* delivers to an idle invocation, the transcription service writes the    *)
(* transcript of a submitted job, and every external call succeeds         *)
(***************************************************************************)
Inv3 == {"i1", "i2", "i3"}

\* the tails t of the uploaded recordings recordings/<t>.mp3
RecordingTails == {"a", "a.mp3.old", "a.json.old", "x/recordings/y"}

\* transcripts with a language code and at least one spoken item
PipelineTranscripts ==
    {GoodTranscript,
     Dict(Some("lt-LT"), Some(<<Spoken("3.0", "spk_1", "hi"), Punct(".")>>))}

InitPipeline ==
    /\ env = DefaultEnv
    /\ \E t \in RecordingTails :
          bucket = Put(EmptyBucket, TRANSCRIBE_DIR \o t \o TRANSCRIBE_EXT,
                       [kind |-> "bytes", text |-> "", data |-> NoData])
    /\ Invocations(Inv3, "idle", NoEvent)

\* the invocations are taken in this order: which idle invocation the
\* runtime picks makes no difference
InvOrder == <<"i1", "i2", "i3", "i4">>
Earlier(i) == {InvOrder[k] : k \in {n \in DOMAIN InvOrder : \E m \in DOMAIN InvOrder :
                                                        m > n /\ InvOrder[m] = i}}

\* the object-created event of an object of the bucket, delivered once
Deliver(i) ==
    /\ pc[i] = "idle"
    /\ \A j \in Earlier(i) : pc[j] # "idle"
    /\ \E key \in DOMAIN bucket :
          /\ \A j \in DOMAIN pc : pc[j] # "idle" => event[j].key # key
          /\ event' = [event EXCEPT ![i] = PutEvent(key)]
    /\ Goto(i, "handler")
    /\ UNCHANGED <<env, bucket, prog, calls, locals, fmtVars>>

\* lines 84-100: the job started with OutputKey writes its transcript there
JobCompletes ==
    /\ \E i \in DOMAIN calls, t \in PipelineTranscripts : \E k \in DOMAIN calls[i] :
          /\ calls[i][k].op = "start_transcription_job"
          /\ response[i] = Envelope(200, "OK")
          /\ calls[i][k].key \notin DOMAIN bucket
          /\ bucket' = Put(bucket, calls[i][k].key, JsonObject(t))
    /\ UNCHANGED <<env, prog, event, control, calls, locals, fmtVars>>

\* no external call of the invocation has failed: no failing envelope, no
\* exception, and the model's answer has its text
Succeeds(i) ==
    /\ response[i].statusCode \in {0, 200}
    /\ sn[i].result.statusCode \in {0, 200}
    /\ ret[i].kind # "raise"
    /\ pc[i] = "analyze_put" => IsSome(analyzer_response[i])
    /\ pc[i] = "handler_check" => response[i].statusCode = 200

NextPipeline ==
    \/ JobCompletes
    \/ \E i \in Inv3 :
          \/ Deliver(i)
          \/ handler(i) /\ Succeeds(i)'
          \/ transcribe(i) /\ Succeeds(i)'
          \/ transcribe_client(i) /\ Succeeds(i)'
          \/ transcribe_start(i) /\ Succeeds(i)'
          \/ analyze(i) /\ Succeeds(i)'
          \/ analyze_resource(i) /\ Succeeds(i)'
          \/ analyze_get(i) /\ Succeeds(i)'
          \/ analyze_language(i) /\ Succeeds(i)'
          \/ analyze_client(i) /\ Succeeds(i)'
          \/ analyze_invoke(i) /\ Succeeds(i)'
          \/ analyze_decode(i) /\ Succeeds(i)'
          \/ analyze_put(i) /\ Succeeds(i)'
          \/ notify(i) /\ Succeeds(i)'
          \/ notify_get(i) /\ Succeeds(i)'
          \/ send_notification(i) /\ Succeeds(i)'
          \/ send_notification_publish(i) /\ Succeeds(i)'
          \/ handler_check(i) /\ Succeeds(i)'

SpecPipeline == InitPipeline /\ [][NextPipeline]_vars /\ WF_vars(NextPipeline)

(***************************************************************************)
(* The chain of triggered invocations: one object is uploaded at any key,  *)
(* with any content; every object in the bucket produces one event, the    *)
(* external calls succeed or fail, and a submitted transcription job       *)
(* writes its transcript or never does.  A fourth invocation stands ready. *)
(***************************************************************************)
Inv4 == {"i1", "i2", "i3", "i4"}

UploadKeys ==
    {"recordings/a.mp3", "recordings/a.mp3.old.mp3", "recordings/x/transcripts/y.mp3",
     "recordings/a.json", "transcripts/a.json", "transcripts/x/recordings/y.json",
     "output/a.txt", "output/x/recordings/y.txt", "other/a.mp3"}
UploadContents ==
    {[kind |-> "bytes", text |-> "", data |-> NoData],
     [kind |-> "text", text |-> "1. Sentiment: good", data |-> NoData],
     JsonObject(GoodTranscript)}

InitChain ==
    /\ env = DefaultEnv
    /\ \E key \in UploadKeys, c \in UploadContents : bucket = Put(EmptyBucket, key, c)
    /\ Invocations(Inv4, "idle", NoEvent)

ChainStep(i) ==
    \/ Deliver(i)
    \/ handler(i)
    \/ transcribe(i)
    \/ transcribe_client(i)
    \/ transcribe_start(i)
    \/ analyze(i)
    \/ analyze_resource(i)
    \/ analyze_get(i)
    \/ analyze_language(i)
    \/ analyze_client(i)
    \/ analyze_invoke(i)
    \/ analyze_decode(i)
    \/ analyze_put(i)
    \/ notify(i)
    \/ notify_get(i)
    \/ send_notification(i)
    \/ send_notification_publish(i)
    \/ handler_check(i)

Running == \E i \in Inv4 : ChainStep(i)
NextChain == JobCompletes \/ Running

\* an event is delivered and an invocation runs on; the transcription job
\* is the service's to complete
SpecChain == InitChain /\ [][NextChain]_vars /\ WF_vars(Running)

(***************************************************************************)
(* Vocabulary of the properties.  These are stated on their own, not with  *)
(* the operators that model the code.                                      *)
(***************************************************************************)
HasPrefix(s, p) == \E n \in 0..Len(s) : SubSeq(s, 1, n) = p
HasSuffix(s, x) == \E n \in 1..(Len(s) + 1) : SubSeq(s, n, Len(s)) = x
Occurs(s, x) == \E m \in 0..(Len(s) - Len(x)) : SubSeq(s, m + 1, m + Len(x)) = x
FirstChars(s, n) == IF Len(s) <= n THEN s ELSE SubSeq(s, 1, n)

Combined(i) == prog[i] = "combined"
Done(i) == pc[i] = "done"
\* the handler has read and routed the event
Routed(i) == pc[i] \notin {"idle", "handler", "standalone"}
WellFormed(i) == event[i].shape = "ok"
ObjectCreated(i) == event[i].eventName \in {"ObjectCreated:Copy", "ObjectCreated:Put"}

Indices(i, op) == {k \in DOMAIN calls[i] : calls[i][k].op = op}
Count(i, op) == Cardinality(Indices(i, op))
StageCalls(i) == Indices(i, "transcribe") \cup Indices(i, "analyze") \cup Indices(i, "notify")
TopicConfigured ==
    env.OUTPUTNOTIFICATIONTOPIC_TOPIC_ARN \notin {<<>>, <<"">>}

\* the stage handler has returned an envelope to handler
StageReturned(i) == response[i] # NoEnvelope
\* the send_notification calls made by handler itself
FanoutCalls(i) == {k \in Indices(i, "send_notification") : calls[i][k].key = "handler"}
PublishesAfter(i, k) == {j \in Indices(i, "publish") : j > k}

(***************************************************************************)
(* C1  An event whose eventName is not ObjectCreated:Copy or               *)
(* ObjectCreated:Put, with its fields present, makes handler return        *)
(* {200, 'Skipped'} and invoke none of transcribe, analyze, notify and     *)
(* send_notification, whatever the key is.                                 *)
(***************************************************************************)
C1_SkippedEvents ==
    \A i \in Inv :
        (Combined(i) /\ Routed(i) /\ WellFormed(i) /\ ~ObjectCreated(i))
        => /\ Done(i)
           /\ ret[i] = Returned(Envelope(200, "Skipped"))
           /\ calls[i] = <<>>

C1_Witness ==
    \E i \in Inv :
        /\ Combined(i) /\ Done(i) /\ WellFormed(i)
        /\ event[i].eventName = "ObjectRemoved:Delete"
        /\ event[i].key = "recordings/a.mp3"
        /\ ret[i] = Returned(Envelope(200, "Skipped"))

(***************************************************************************)
(* C2  As claimed: every object-created event whose key matches none of    *)
(* the three prefix/extension combinations makes handler return            *)
(* {400, 'Invalid file path'}, a recognized prefix with a wrong extension  *)
(* (recordings/a.txt) included.                                            *)
(***************************************************************************)
MatchesStage(key) ==
    \/ HasPrefix(key, "recordings/") /\ HasSuffix(key, ".mp3")
    \/ HasPrefix(key, "transcripts/") /\ HasSuffix(key, ".json")
    \/ HasPrefix(key, "output/") /\ HasSuffix(key, ".txt")
HasStagePrefix(key) ==
    \E d \in {"recordings/", "transcripts/", "output/"} : HasPrefix(key, d)

LacksField(i) ==
    event[i].shape \in {"noRecords", "noEventName", "noS3", "noBucket",
                        "noBucketName", "noObject", "noKey"}

C4_Original ==
    \A i \in Inv :
        (Combined(i) /\ Done(i) /\ response[i].statusCode = 500
         /\ TopicConfigured /\ ret[i].kind = "return")
        => /\ Count(i, "publish") = 1
           /\ \A k \in FanoutCalls(i) :
                /\ Occurs(calls[i][k].subject, event[i].key)
                /\ Occurs(calls[i][k].body, "500")
                /\ Occurs(calls[i][k].body, response[i].body)

(***************************************************************************)
(* C4 amended  When the dispatched stage handler returns statusCode 500,   *)
(* handler calls send_notification exactly once after the stage returned,  *)
(* with a subject containing the object key and a message containing the   *)
(* status code and the envelope body.  That call attempts publish once,    *)
(* with the first 100 characters of the subject and the same message, if   *)
(* the messaging client was constructed and the topic is configured, and   *)
(* not at all otherwise.  When the failing stage is notify and it reached  *)
(* its own send_notification call, that call is a second one of the        *)
(* invocation, so publish may be attempted twice in all.                   *)
(***************************************************************************)
C4_FanoutOnce ==
    \A i \in Inv :
        (Combined(i) /\ Done(i) /\ response[i].statusCode = 500)
        => /\ \E k \in DOMAIN calls[i] :
                /\ FanoutCalls(i) = {k}
                /\ \A j \in StageCalls(i) : j < k
                /\ Occurs(calls[i][k].subject, event[i].key)
                /\ Occurs(calls[i][k].body, "500")
                /\ Occurs(calls[i][k].body, response[i].body)
                /\ Cardinality(PublishesAfter(i, k)) =
                       IF ret[i].kind = "return" /\ TopicConfigured THEN 1 ELSE 0
                /\ \A j \in PublishesAfter(i, k) :
                       /\ calls[i][j].subject = FirstChars(calls[i][k].subject, 100)
                       /\ calls[i][j].body = calls[i][k].body
           /\ Count(i, "send_notification") =
                  IF \E j \in Indices(i, "send_notification") : calls[i][j].key = "notify"
                  THEN 2 ELSE 1
           /\ Count(i, "publish") <= Count(i, "send_notification")

\* notify's own publish failed, and the fan-out published as well
C4_Witness ==
    \E i \in Inv :
        /\ Combined(i) /\ Done(i) /\ response[i].statusCode = 500
        /\ calls[i][1].op = "notify"
        /\ Count(i, "send_notification") = 2
        /\ Count(i, "publish") = 2

(***************************************************************************)
(* C5  Whenever a stage handler returns an envelope with statusCode other  *)
(* than 200, handler calls send_notification and then returns exactly the  *)
(* stage handler's envelope, whatever send_notification comes back with    *)
(* (success, missing topic, transport failure): the fan-out's result       *)
(* never replaces or suppresses the failing envelope.                      *)
(***************************************************************************)
\* the three envelopes send_notification can come back with
FanoutOutcomes ==
    {Envelope(200, "OK"),
     Envelope(500, "Internal server error: OUTPUTNOTIFICATIONTOPIC_TOPIC_ARN not set"),
     Envelope(500, "Internal server error: Error sending text to SNS topic: boom")}

C6_Original ==
    \A i \in Inv :
        (Combined(i) /\ Done(i) /\ ret[i].kind = "return" /\ ret[i].value.statusCode = 400)
        => /\ Count(i, "send_notification") = 0
           /\ Count(i, "publish") = 0

(***************************************************************************)
(* C6 amended  An invocation of handler that returns statusCode 400 for a  *)
(* malformed event or an invalid file path triggers no fan-out:            *)
(* send_notification is never called and nothing is published.  A 400      *)
(* from a stage handler rejecting a wrong file type does trigger it:       *)
(* handler calls send_notification once, and publish is attempted once if  *)
(* the topic is configured.                                                *)
(***************************************************************************)
C6_BadRequestFanout ==
    \A i \in Inv :
        (Combined(i) /\ Done(i) /\ ret[i].kind = "return" /\ ret[i].value.statusCode = 400)
        => IF ret[i].value.body \in {"Invalid event data", "Invalid file path"}
           THEN /\ Count(i, "send_notification") = 0
                /\ Count(i, "publish") = 0
                /\ ~StageReturned(i)
           ELSE /\ ret[i].value = Envelope(400, "Invalid file type")
                /\ StageReturned(i)
                /\ Count(i, "send_notification") = 1
                /\ Cardinality(FanoutCalls(i)) = 1
                /\ Count(i, "publish") = IF TopicConfigured THEN 1 ELSE 0

C6_Witness ==
    \E i \in Inv :
        /\ Combined(i) /\ Done(i)
        /\ event[i].key = "recordings/a.txt"
        /\ ret[i] = Returned(Envelope(400, "Invalid file type"))
        /\ Count(i, "send_notification") = 1
        /\ Count(i, "publish") = 1

(***************************************************************************)
(* C7  For a key that does not end in '.mp3' the transcribe stage returns  *)
(* {400, 'Invalid file type'} without creating a transcription client,     *)
(* generating a job name or submitting a job, in the combined handler and  *)
(* in the standalone transcribe handler.                                   *)
(***************************************************************************)
TranscriptionCalls(i) ==
    {k \in DOMAIN calls[i] :
        \/ calls[i][k].op \in {"uuid4", "start_transcription_job"}
        \/ calls[i][k].op = "client" /\ calls[i][k].key = "transcribe"}

C7_NotMp3 ==
    \A i \in Inv :
        /\ (Combined(i) /\ Indices(i, "transcribe") # {} /\ pc[i] # "transcribe"
            /\ ~HasSuffix(event[i].key, ".mp3"))
           => /\ response[i] = Envelope(400, "Invalid file type")
              /\ TranscriptionCalls(i) = {}
              /\ pc[i] = "handler_check" => Len(calls[i]) = 1
        /\ (prog[i] = "standalone" /\ Routed(i)
            /\ event[i].shape \in {"ok", "noEventName"}
            /\ ~HasSuffix(event[i].key, ".mp3"))
           => /\ Done(i)
              /\ ret[i] = Returned(Envelope(400, "Invalid file type"))
              /\ calls[i] = <<>>

\* the stage has just returned: a key that holds '.mp3' but does not end in it
C7_Witness ==
    \E i \in Inv :
        /\ Combined(i) /\ pc[i] = "handler_check"
        /\ event[i].key = "recordings/a.mp3.old.txt"
        /\ response[i] = Envelope(400, "Invalid file type")

(***************************************************************************)
(* C8  As claimed: key derivation preserves the path tail.  For every      *)
(* tail t, transcribe derives 'transcripts/'+t+'.json' from                *)
(* 'recordings/'+t+'.mp3', analyze derives 'output/'+t+'.txt' from         *)
(* 'transcripts/'+t+'.json', and notify reconstructs t+'.mp3' from         *)
(* 'output/'+t+'.txt', also when t holds a stage directory name or one of  *)
(* the extensions.                                                         *)
(***************************************************************************)
\* stage handler `stage` was entered and is past its extension check
PastCheck(i, stage) == Combined(i) /\ Indices(i, stage) # {} /\ pc[i] # stage

C8_Original ==
    \A i \in Inv, t \in Tails :
        /\ (PastCheck(i, "transcribe") /\ event[i].key = "recordings/" \o t \o ".mp3")
           => output_s3_key[i] = "transcripts/" \o t \o ".json"
        /\ (PastCheck(i, "analyze") /\ event[i].key = "transcripts/" \o t \o ".json")
           => output_s3_key[i] = "output/" \o t \o ".txt"
        /\ (PastCheck(i, "notify") /\ event[i].key = "output/" \o t \o ".txt")
           => original_input_s3_key[i] = t \o ".mp3"

(***************************************************************************)
(* Vocabulary of the formatter's properties                                *)
(***************************************************************************)
FmtDone == fmt_out.done
FmtItemsIn == fmt_in.results[1].items[1]
IsSpokenItem(item) == item.start_time # <<>>
IsPunctuation(item) == item.start_time = <<>> /\ item.type = <<"punctuation">>
ContentOf(item) == item.alternatives[1][1][1]
HeaderOf(item) ==
    item.start_time[1].s \o "\t" \o item.speaker_label[1] \o "\t" \o ContentOf(item)

\* a list of well-formed items that opens with a spoken one
OpensWithSpeech ==
    /\ FmtItemsIn # <<>>
    /\ \A k \in DOMAIN FmtItemsIn : FmtItemsIn[k] \in WellFormedItems
    /\ IsSpokenItem(FmtItemsIn[1])

(***************************************************************************)
(* C9  As claimed: for a non-empty item list the result of format_content  *)
(* begins directly with the first turn's header                            *)
(* '<startTime>\t<speakerLabel>\t<content>' of the first spoken item,      *)
(* whatever its speaker label is, and a punctuation item's content         *)
(* follows the preceding token with no space between them.                 *)
(***************************************************************************)
C9_Original ==
    (FmtDone /\ OpensWithSpeech)
    => /\ HasPrefix(fmt_out.out, HeaderOf(FmtItemsIn[1]))
       /\ \A k \in DOMAIN FmtItemsIn :
            (k > 1 /\ IsPunctuation(FmtItemsIn[k]))
            => Occurs(fmt_out.out, ContentOf(FmtItemsIn[k - 1]) \o ContentOf(FmtItemsIn[k]))

(***************************************************************************)
(* C10  As claimed: format_content emits exactly one turn per maximal run  *)
(* of consecutive spoken items with the same speaker label, in input       *)
(* order; consecutive turns are separated by exactly '\n\n' and nothing    *)
(* follows the last turn.                                                  *)
(***************************************************************************)
\* the turns the claim describes: [label, text] per maximal run
RECURSIVE TurnsOf(_, _)
TurnsOf(items, turns) ==
    IF items = <<>> THEN turns
    ELSE LET item == Head(items)
             n == Len(turns)
         IN  IF IsSpokenItem(item)
             THEN IF n > 0 /\ turns[n].label = item.speaker_label[1]
                  THEN TurnsOf(Tail(items),
                               [turns EXCEPT ![n].text = @ \o " " \o ContentOf(item)])
                  ELSE TurnsOf(Tail(items),
                               Append(turns, [label |-> item.speaker_label[1],
                                              text |-> HeaderOf(item)]))
             ELSE IF n > 0
                  THEN TurnsOf(Tail(items), [turns EXCEPT ![n].text = @ \o ContentOf(item)])
                  ELSE TurnsOf(Tail(items), turns)

RECURSIVE JoinTurns(_)
JoinTurns(turns) ==
    IF turns = <<>> THEN ""
    ELSE IF Len(turns) = 1 THEN turns[1].text
    ELSE turns[1].text \o "\n\n" \o JoinTurns(Tail(turns))

C10_Original ==
    (FmtDone /\ OpensWithSpeech)
    => fmt_out.out = JoinTurns(TurnsOf(FmtItemsIn, <<>>))

(***************************************************************************)
(* Vocabulary of the analyze stage's properties                            *)
(***************************************************************************)
\* the transcript was fetched and parsed, and it has results.language_code
HasLanguageCode(i) ==
    /\ json_data[i].top = "dict"
    /\ json_data[i].results # <<>>
    /\ json_data[i].results[1].language_code # <<>>
BeforeFormat == {"idle", "handler", "analyze", "analyze_resource", "analyze_get",
                 "analyze_language"}
\* analyze has called format_content on a transcript with an item list
Formatted(i) ==
    /\ HasLanguageCode(i)
    /\ json_data[i].results[1].items # <<>>
    /\ pc[i] \notin BeforeFormat
TranscriptItems(i) == json_data[i].results[1].items[1]

LacksContent(item) ==
    \/ item.alternatives = <<>>
    \/ item.alternatives[1] = <<>>
    \/ item.alternatives[1][1] = <<>>
\* the item lacks alternatives, content or type
LacksRequired(item) == LacksContent(item) \/ item.type = <<>>

\* neither the model nor the output object was touched
ModelCalls(i) ==
    Indices(i, "invoke_model")
    \cup {k \in Indices(i, "client") : calls[i][k].key = "bedrock-runtime"}
NothingDone(i) ==
    /\ ModelCalls(i) = {}
    /\ Count(i, "put") = 0
    /\ DOMAIN bucket = {event[i].key}

(***************************************************************************)
(* C11  As claimed: if any item of the transcript lacks alternatives,      *)
(* content or type, format_content fails as a whole and returns no partial *)
(* transcript, and analyze then returns statusCode 500 with the body       *)
(* 'Error formatting content' (taken as the text after the                 *)
(* 'Internal server error: ' every 500 of analyze opens with) without      *)
(* invoking the model or writing any output; also for an item that has a   *)
(* start time but lacks type.                                              *)
(***************************************************************************)
C11_Original ==
    \A i \in Inv :
        (Formatted(i) /\ \E k \in DOMAIN TranscriptItems(i) :
                            LacksRequired(TranscriptItems(i)[k]))
        => /\ speaker_formatted_content[i] = ""
           /\ response[i].statusCode = 500
           /\ HasSuffix(response[i].body, "Error formatting content")
           /\ NothingDone(i)

(***************************************************************************)
(* C11 amended  format_content fails as a whole, with no partial           *)
(* transcript, exactly when some item lacks a field the formatter reads    *)
(* from it: the speaker label or the first alternative's content of an     *)
(* item read as spoken (its start time is present and is not a numeric     *)
(* zero), the type of any other item, the first alternative's content of   *)
(* a punctuation item.  analyze then returns {500, 'Internal server        *)
(* error: Error formatting content'} without invoking the model or         *)
(* writing any output.  An item with a start time that lacks type is       *)
(* formatted as a spoken item, and an item that is neither spoken nor      *)
(* punctuation is skipped even when it lacks alternatives; when no item    *)
(* fails, the content of every spoken item is in the result.               *)
(***************************************************************************)
ReadAsSpoken(item) ==
    /\ item.start_time # <<>>
    /\ ~(item.start_time[1].num /\ item.start_time[1].s = "0")
LacksReadField(item) ==
    IF ReadAsSpoken(item)
    THEN item.speaker_label = <<>> \/ LacksContent(item)
    ELSE item.type = <<>> \/ (item.type = <<"punctuation">> /\ LacksContent(item))
FormattingError == Envelope(500, "Internal server error: Error formatting content")

C11_FormatFails ==
    \A i \in Inv :
        Formatted(i)
        => LET items == TranscriptItems(i)
               text == speaker_formatted_content[i]
           IN  /\ (\E k \in DOMAIN items : LacksReadField(items[k])) => text = ""
               /\ (\A k \in DOMAIN items : ~LacksReadField(items[k]))
                    => \A k \in DOMAIN items :
                          ReadAsSpoken(items[k]) => /\ text # ""
                                                    /\ Occurs(text, ContentOf(items[k]))
               /\ text = "" => /\ response[i] = FormattingError
                               /\ NothingDone(i)
               /\ text # "" => response[i] # FormattingError

\* hello, then a punctuation item without alternatives: nothing of hello is
\* returned
C11_Witness ==
    \E i \in Inv :
        /\ Formatted(i) /\ Done(i)
        /\ TranscriptItems(i) = <<Spoken("1.0", "spk_0", "hello"),
                                  [Punct("!") EXCEPT !.alternatives = None]>>
        /\ speaker_formatted_content[i] = ""
        /\ ret[i] = Returned(FormattingError)
        /\ Count(i, "invoke_model") = 0

(***************************************************************************)
(* C12  format_content applied to a transcription result whose item list   *)
(* is empty returns the empty string.                                      *)
(***************************************************************************)
C12_EmptyList == (FmtDone /\ FmtItemsIn = <<>>) => fmt_out.out = ""

C12_Witness == FmtDone /\ FmtItemsIn = <<>> /\ fmt_out.out = ""

(***************************************************************************)
(* C13  As claimed: for every successfully fetched and parsed transcript   *)
(* that has no results.language_code, analyze returns statusCode 500 with  *)
(* the body 'Error getting language code' (taken as the text after         *)
(* 'Internal server error: '), and in that invocation the formatter's      *)
(* result is not used, the model is not invoked and nothing is written.    *)
(***************************************************************************)
\* the object was read and json.loads gave a value
Parsed(i) ==
    /\ Combined(i)
    /\ Count(i, "get") = 1
    /\ Indices(i, "analyze") # {}
    /\ pc[i] \notin BeforeFormat
    /\ ~Occurs(response[i].body, "Error decoding input file")

C13_Original ==
    \A i \in Inv :
        (Parsed(i) /\ ~HasLanguageCode(i))
        => /\ response[i].statusCode = 500
           /\ HasSuffix(response[i].body, "Error getting language code")
           /\ speaker_formatted_content[i] = ""
           /\ ModelCalls(i) = {}
           /\ Count(i, "put") = 0

(***************************************************************************)
(* C14  As claimed: for every key ending in '.txt', notify returns exactly *)
(* the envelope produced by its send_notification call when the object     *)
(* body was fetched, and returns a statusCode-500 envelope without any     *)
(* publish attempted by notify when the fetch fails; notify never raises   *)
(* to its caller.                                                          *)
(***************************************************************************)
\* notify has just returned to handler
NotifyReturned(i) ==
    /\ Combined(i)
    /\ Indices(i, "notify") # {}
    /\ pc[i] = "handler_check"
NotifyFetched(i) ==
    \E k \in Indices(i, "send_notification") : calls[i][k].key = "notify"

C14_Original ==
    \A i \in Inv :
        /\ (NotifyReturned(i) /\ HasSuffix(event[i].key, ".txt"))
           => IF NotifyFetched(i)
              THEN /\ sn[i].caller = "notify"
                   /\ sn[i].result # NoEnvelope
                   /\ response[i] = sn[i].result
              ELSE /\ response[i].statusCode = 500
                   /\ Count(i, "publish") = 0
        \* an invocation routed to notify never ends inside notify
        /\ (Combined(i) /\ Indices(i, "notify") # {} /\ Done(i)) => StageReturned(i)

(***************************************************************************)
(* C15  As claimed: when the notification topic is absent from the         *)
(* process configuration, send_notification returns a statusCode-500       *)
(* envelope and never calls publish; when it is present, it returns        *)
(* {200, 'OK'} or a statusCode-500 envelope, as its one publish succeeded  *)
(* or failed.                                                              *)
(***************************************************************************)
\* the last send_notification call of the invocation has ended
SendNotificationEnded(i) ==
    /\ sn[i].caller # ""
    /\ pc[i] \notin {"send_notification", "send_notification_publish"}
LastSendNotification(i) ==
    CHOOSE k \in Indices(i, "send_notification") :
        \A j \in Indices(i, "send_notification") : j <= k

C15_Original ==
    \A i \in Inv :
        SendNotificationEnded(i)
        => LET published == PublishesAfter(i, LastSendNotification(i))
           IN  IF TopicConfigured
               THEN /\ Cardinality(published) = 1
                    /\ \/ sn[i].result = Envelope(200, "OK")
                       \/ sn[i].result.statusCode = 500
               ELSE /\ published = {}
                    /\ sn[i].result.statusCode = 500

(***************************************************************************)
(* C16  Every publish, from notify or from handler's fan-out, carries a    *)
(* subject of at most 100 characters that is a prefix of the subject       *)
(* send_notification was called with; a subject longer than that is cut    *)
(* to its first 100 characters, and the publish is neither rejected nor    *)
(* skipped for it: whenever send_notification returns and the topic is     *)
(* configured, it has published.                                           *)
(***************************************************************************)
\* the send_notification call that publish j belongs to
CallOfPublish(i, j) ==
    CHOOSE k \in Indices(i, "send_notification") :
        /\ k < j
        /\ \A m \in Indices(i, "send_notification") : m < j => m <= k

C16_SubjectCut ==
    \A i \in Inv :
        /\ \A j \in Indices(i, "publish") :
              LET asked == calls[i][CallOfPublish(i, j)]
                  sent == calls[i][j]
              IN  /\ Len(sent.subject) <= 100
                  /\ HasPrefix(asked.subject, sent.subject)
                  /\ Len(asked.subject) > 100 => Len(sent.subject) = 100
                  /\ sent.body = asked.body
                  /\ asked.key = "notify"
                       => asked.subject = "Call Center Analyzer - " \o event[i].key
        /\ (TopicConfigured /\ SendNotificationEnded(i) /\ sn[i].result # NoEnvelope)
           => /\ PublishesAfter(i, LastSendNotification(i)) # {}
              /\ sn[i].result \in FanoutOutcomes

\* a key of 101 characters: notify asks for a subject of 124 and 100 are sent
C16_Witness ==
    \E i \in Inv :
        /\ Done(i)
        /\ event[i].key = "output/" \o LongTail \o ".txt"
        /\ \E j \in Indices(i, "publish") :
              /\ calls[i][CallOfPublish(i, j)].key = "notify"
              /\ Len(calls[i][CallOfPublish(i, j)].subject) > 100
              /\ Len(calls[i][j].subject) = 100
        /\ ret[i] = Returned(Envelope(200, "OK"))

(***************************************************************************)
(* C17  As claimed: every invocation of handler, for every trigger event   *)
(* (an empty Records list included) and every outcome of the               *)
(* collaborators (a failure to construct the messaging client during the   *)
(* fan-out included), ends by returning an envelope whose statusCode is    *)
(* 200, 400 or 500; it never ends by raising an uncaught error.            *)
(***************************************************************************)
C17_Original ==
    \A i \in Inv :
        (Combined(i) /\ Done(i))
        => /\ ret[i].kind = "return"
           /\ ret[i].value.statusCode \in {200, 400, 500}

(***************************************************************************)
(* C19  Within one invocation the transcription job submission and the     *)
(* model invocation are each attempted at most once: a failure of either   *)
(* makes the stage return a statusCode-500 envelope with no second         *)
(* attempt, and the model is invoked only after the extension check, the   *)
(* fetch, the parse, the language-code extraction and the formatting have  *)
(* all succeeded.                                                          *)
(***************************************************************************)
Submissions(i) == Indices(i, "start_transcription_job")
ModelInvocations(i) == Indices(i, "invoke_model")
\* the stage's envelope once the stage has returned
StageEnvelopeIn(i, envelopes) == StageReturned(i) => response[i] \in envelopes

C19_AtMostOnce ==
    \A i \in Inv :
        /\ Cardinality(Submissions(i)) <= 1
        /\ Cardinality(ModelInvocations(i)) <= 1
        \* a submission ends the stage: OK, or the 500 of its failure
        /\ (Combined(i) /\ Submissions(i) # {})
           => /\ pc[i] # "transcribe_start"
              /\ StageReturned(i)
              /\ response[i] \in
                    {Envelope(200, "OK"),
                     Envelope(500, "Internal server error: Error starting transcription job: boom")}
        /\ (Combined(i) /\ StageReturned(i)
            /\ Occurs(response[i].body, "Error starting transcription job"))
           => response[i].statusCode = 500 /\ Cardinality(Submissions(i)) = 1
        \* a failed model invocation ends the stage with its 500
        /\ (StageReturned(i) /\ Occurs(response[i].body, "Error analyzing transcript"))
           => /\ response[i].statusCode = 500
              /\ Cardinality(ModelInvocations(i)) = 1
              /\ calls[i][Len(calls[i])].op \in {"invoke_model", "send_notification",
                                                 "client", "publish"}
              /\ Count(i, "put") = 0
        \* what has succeeded before the model is invoked
        /\ ModelInvocations(i) # {}
           => /\ HasSuffix(event[i].key, ".json")
              /\ Count(i, "get") = 1
              /\ \A k \in ModelInvocations(i), g \in Indices(i, "get") : g < k
              /\ HasLanguageCode(i)
              /\ speaker_formatted_content[i] # ""
              /\ \A k \in ModelInvocations(i) :
                    Occurs(calls[i][k].body, speaker_formatted_content[i])

\* the model invocation failed: one attempt, and the 500 went to the fan-out
C19_Witness ==
    \E i \in Inv :
        /\ Done(i)
        /\ response[i] = Envelope(500, "Internal server error: Error analyzing transcript: boom")
        /\ ret[i] = Returned(response[i])
        /\ Count(i, "invoke_model") = 1

(***************************************************************************)
(* Vocabulary of the pipeline's properties                                 *)
(***************************************************************************)
Uploaded(t) == ("recordings/" \o t \o ".mp3") \in DOMAIN bucket
\* notify has published the content of the object at key
NotifyPublished(key) ==
    /\ key \in DOMAIN bucket
    /\ \E i \in DOMAIN pc :
          /\ event[i].key = key
          /\ \E j \in Indices(i, "publish") :
                /\ calls[i][CallOfPublish(i, j)].key = "notify"
                /\ calls[i][j].body = bucket[key].text
\* some invocation of stage `stage` made call `op` for key
WrittenBy(stage, op, key) ==
    \E j \in DOMAIN pc :
        /\ Indices(j, stage) # {}
        /\ \E k \in Indices(j, op) : calls[j][k].key = key
\* analyze runs on what a transcribe job wrote, notify on what analyze wrote
InOrder ==
    \A i \in DOMAIN pc :
        /\ Indices(i, "transcribe") # {} => HasPrefix(event[i].key, "recordings/")
        /\ Indices(i, "analyze") # {}
           => WrittenBy("transcribe", "start_transcription_job", event[i].key)
        /\ Indices(i, "notify") # {} => WrittenBy("analyze", "put", event[i].key)

(***************************************************************************)
(* C18  As claimed: when every external call succeeds, the transcript has  *)
(* a language code and a spoken item, and every written object's event is  *)
(* delivered, an object-created event for recordings/<t>.mp3 leads to a    *)
(* publish by notify of the content of output/<t>.txt; the stages run in   *)
(* the order transcribe, analyze, notify, each triggered only by the       *)
(* object the previous stage wrote.                                        *)
(***************************************************************************)
C18_Original ==
    /\ []InOrder
    /\ \A t \in RecordingTails :
          Uploaded(t) ~> NotifyPublished("output/" \o t \o ".txt")

\* C18 for the tails that hold none of the extensions: the pipeline runs
\* to notify's publish of output/<t>.txt
PipelineCompletes ==
    /\ []InOrder
    /\ \A t \in {"a", "x/recordings/y"} :
          Uploaded(t) ~> NotifyPublished("output/" \o t \o ".txt")

(***************************************************************************)
(* C20  As claimed: two invocations triggered for the same key             *)
(* transcripts/<t>.json, interleaved in any way, each invoke the model     *)
(* once, both write the derived key output/<t>.txt, and the object stored  *)
(* there is the complete document of one of them, never a mixture.         *)
(***************************************************************************)
\* the document invocation i put, when its put succeeded
Wrote(i, key) ==
    /\ response[i] = Envelope(200, "OK")
    /\ Count(i, "invoke_model") = 1
    /\ \E k \in DOMAIN calls[i] :
          /\ Indices(i, "put") = {k}
          /\ calls[i][k].key = key
Document(i) == calls[i][CHOOSE k \in Indices(i, "put") : TRUE].body

C20_Original ==
    \A t \in TranscriptTails :
        (\A i \in Inv2 : event[i].key = "transcripts/" \o t \o ".json")
        => LET out == "output/" \o t \o ".txt" IN
           /\ \A i \in Inv2 :
                 /\ Count(i, "invoke_model") <= 1
                 /\ response[i] = Envelope(200, "OK") => Wrote(i, out)
           /\ DOMAIN bucket \subseteq {"transcripts/" \o t \o ".json", out}
           /\ out \in DOMAIN bucket
                => \E i \in Inv2 : Wrote(i, out) /\ bucket[out].text = Document(i)

\* a step: a successful put stores the writer's document, nothing else
\* changes the bucket, and one invocation's step leaves the other alone
Frame(j) ==
    <<pc[j], response[j], ret[j], calls[j], output_s3_key[j], json_data[j],
      speaker_formatted_content[j], analyzer_response[j], sn[j]>>
WriterStep ==
    /\ \A i \in Inv2 :
          (response[i] = NoEnvelope /\ Wrote(i, output_s3_key[i])')
          => bucket'[output_s3_key[i]].text = Document(i)'
    /\ bucket' # bucket
          => \E i \in Inv2 : response[i] = NoEnvelope /\ Wrote(i, output_s3_key[i])'
    /\ \E i \in Inv2 : \A j \in Inv2 \ {i} : Frame(j)' = Frame(j)

\* C20 with the key as analyze derives it: the store holds one whole
\* document, each successful put replaces it with the writer's, and a step
\* of one invocation changes nothing of the other
LastWriterWins ==
    /\ [](\A i \in Inv2 :
            /\ Count(i, "invoke_model") <= 1
            /\ response[i] = Envelope(200, "OK") => Wrote(i, output_s3_key[i])
            /\ \A j \in Inv2 : (output_s3_key[i] # "" /\ output_s3_key[j] # "")
                                 => output_s3_key[i] = output_s3_key[j]
            /\ output_s3_key[i] \in DOMAIN bucket
                 => \E j \in Inv2 : /\ Wrote(j, output_s3_key[i])
                                     /\ bucket[output_s3_key[i]].text = Document(j))
    /\ [][WriterStep]_vars

\* both wrote, with different answers of the model: one whole document stays
TwoWriters ==
    /\ \A i \in Inv2 : Done(i) /\ Wrote(i, "output/a.txt")
    /\ Document("i1") # Document("i2")
    /\ bucket["output/a.txt"].text = Document("i2")

(***************************************************************************)
(* C21  analyze returns {200, 'OK'} if and only if it wrote the combined   *)
(* document, the model's answer followed by the labeled turn text, to the  *)
(* key it derived, in the bucket of the input; an invocation in which      *)
(* analyze returns another envelope leaves the bucket as it was, and the   *)
(* write never precedes the model's successful response.                   *)
(***************************************************************************)
AnalyzeEntered(i) == Indices(i, "analyze") # {}
\* the object at the key analyze derived
Stored(i) == output_s3_key[i] \in DOMAIN bucket
CombinedDocument(i) ==
    analyzer_response[i][1] \o "\n\n4. Original Call Transcribe"
    \o speaker_formatted_content[i]
TextObject(text) == [kind |-> "text", text |-> text, data |-> NoData]

\* in every state of an invocation routed to analyze
WroteIffOK ==
    \A i \in Inv :
        AnalyzeEntered(i)
        => /\ response[i] = Envelope(200, "OK") <=> Stored(i)
           /\ Stored(i)
              => /\ bucket[output_s3_key[i]] = TextObject(CombinedDocument(i))
                 /\ HasPrefix(output_s3_key[i], "output/")
                 /\ output_s3_key[i] # event[i].key
           \* a put is attempted after the one model invocation, with the
           \* decoded answer
           /\ \A k \in Indices(i, "put") :
                 /\ analyzer_response[i] # <<>>
                 /\ calls[i][k].key = output_s3_key[i]
                 /\ calls[i][k].body = CombinedDocument(i)
                 /\ \E j \in Indices(i, "invoke_model") : j < k
           /\ (StageReturned(i) /\ response[i].statusCode # 200)
              => DOMAIN bucket \subseteq {event[i].key}

\* in every step of a running invocation: the bucket changes only by the
\* put with which analyze returns OK
WriteStep ==
    \A i \in Inv :
        (pc[i] # "idle" /\ bucket' # bucket)
        => /\ AnalyzeEntered(i)
           /\ response[i] = NoEnvelope
           /\ response'[i] = Envelope(200, "OK")
           /\ bucket' = Put(bucket, output_s3_key[i], TextObject(CombinedDocument(i)))

C21_WroteIffOK == []WroteIffOK /\ [][WriteStep]_vars

\* both sides: analyze returned OK with the document stored, or the write
\* failed after the model answered and the bucket holds the input alone
C21_Witness ==
    \E i \in Inv :
        /\ Done(i)
        /\ AnalyzeEntered(i)
        /\ ret[i] = Returned(Envelope(200, "OK"))
        /\ Stored(i)
        /\ bucket[output_s3_key[i]].text = CombinedDocument(i)
        /\ event[i].key \in DOMAIN bucket

(***************************************************************************)
(* C22  As claimed: every item with a present start time, a numeric 0      *)
(* included, is processed by format_content as a spoken token; for         *)
(* well-formed input the first-alternative content of every spoken item    *)
(* and of every punctuation item appears in the output, in input order,    *)
(* and no item is silently dropped.                                        *)
(***************************************************************************)
\* a spoken token with its label, or a punctuation mark, each with content
WellFormedItem(item) ==
    /\ item.alternatives # <<>>
    /\ item.alternatives[1] # <<>>
    /\ item.alternatives[1][1] # <<>>
    /\ \/ IsSpokenItem(item) /\ item.speaker_label # <<>>
                              /\ item.type = <<"pronunciation">>
       \/ IsPunctuation(item)
WellFormedInput == \A k \in DOMAIN FmtItemsIn : WellFormedItem(FmtItemsIn[k])

\* the least position from `from` on at which x occurs in s; 0 when none
FirstAt(s, x, from) ==
    LET at == {m \in from..(Len(s) - Len(x) + 1) : SubSeq(s, m, m + Len(x) - 1) = x}
    IN  IF at = {} THEN 0 ELSE CHOOSE m \in at : \A n \in at : m <= n

\* the contents of the items occur in s from position `from` on, one after
\* the other
RECURSIVE AppearInOrder(_, _, _)
AppearInOrder(s, items, from) ==
    IF items = <<>> THEN TRUE
    ELSE LET m == FirstAt(s, ContentOf(Head(items)), from)
         IN  /\ m # 0
             /\ AppearInOrder(s, Tail(items), m + Len(ContentOf(Head(items))))

C22_Original ==
    (FmtDone /\ WellFormedInput) => AppearInOrder(fmt_out.out, FmtItemsIn, 1)

\* C22 for the start times bool() reads as true: nothing is dropped
TruthyStart(item) ==
    IsSpokenItem(item)
    => IF item.start_time[1].num THEN item.start_time[1].s \notin {"0", "0.0"}
       ELSE item.start_time[1].s # ""
ContentKept ==
    (FmtDone /\ WellFormedInput /\ \A k \in DOMAIN FmtItemsIn : TruthyStart(FmtItemsIn[k]))
    => AppearInOrder(fmt_out.out, FmtItemsIn, 1)

(***************************************************************************)
(* C23  Every key the router dispatches to transcribe and that passes the  *)
(* '.mp3' check derives a key that starts with 'transcripts/' and ends     *)
(* with '.json', which the router classifies as the analyze stage and      *)
(* whose extension analyze accepts; every key dispatched to analyze that   *)
(* passes the '.json' check derives a key that starts with 'output/' and   *)
(* ends with '.txt', which is routed to notify and accepted by it.         *)
(***************************************************************************)
\* key has the directory and the extension of a stage's input
Shaped(key, dir, ext) == HasPrefix(key, dir) /\ HasSuffix(key, ext)
\* the routed invocation entered stage `stage` alone, and the stage did not
\* reject the file type
AcceptedBy(i, stage) ==
    /\ Indices(i, stage) # {}
    /\ StageCalls(i) = Indices(i, stage)
    /\ pc[i] # stage => response[i] # Envelope(400, "Invalid file type")

C23_DerivedKeysRoute ==
    \A i \in Inv :
        \* the derived keys
        /\ (PastCheck(i, "transcribe") /\ HasSuffix(event[i].key, ".mp3"))
           => Shaped(output_s3_key[i], "transcripts/", ".json")
        /\ (PastCheck(i, "analyze") /\ HasSuffix(event[i].key, ".json"))
           => Shaped(output_s3_key[i], "output/", ".txt")
        \* what the router and the stage do with a key of that shape
        /\ (Combined(i) /\ Routed(i) /\ WellFormed(i) /\ ObjectCreated(i))
           => /\ Shaped(event[i].key, "transcripts/", ".json") => AcceptedBy(i, "analyze")
              /\ Shaped(event[i].key, "output/", ".txt") => AcceptedBy(i, "notify")

\* a recording whose tail holds the extension: the derived key is one the
\* analyze stage accepts
C23_Witness ==
    \E i \in Inv :
        /\ PastCheck(i, "transcribe")
        /\ event[i].key = "recordings/a.mp3.old.mp3"
        /\ output_s3_key[i] = "transcripts/a.json.old.json"
        /\ response[i] = Envelope(200, "OK")

(***************************************************************************)
(* C24  The pipeline cannot loop.  No stage writes an object whose key     *)
(* routes to the same or an earlier stage: transcribe's output routes only *)
(* to analyze, analyze's only to notify, notify and the failure fan-out    *)
(* write nothing to storage.  One uploaded object causes at most three     *)
(* handler invocations, and the chain of triggered invocations always      *)
(* terminates.                                                             *)
(***************************************************************************)
\* the stage a key routes to: 1 transcribe, 2 analyze, 3 notify, 4 none
StageRank(key) ==
    IF HasPrefix(key, "recordings/") THEN 1
    ELSE IF HasPrefix(key, "transcripts/") THEN 2
    ELSE IF HasPrefix(key, "output/") THEN 3
    ELSE 4
\* the keys invocation i asked the store, or the transcription job, to write
WriteCalls(i) == Indices(i, "put") \cup Indices(i, "start_transcription_job")
Started == {i \in Inv4 : pc[i] # "idle"}
\* the objects no invocation wrote
Uploads ==
    {key \in DOMAIN bucket :
        /\ ~WrittenBy("transcribe", "start_transcription_job", key)
        /\ ~WrittenBy("analyze", "put", key)}

NoLoop ==
    /\ \A i \in Inv4 :
          \* the stage entered is the one the key's prefix names
          /\ Indices(i, "transcribe") # {} => StageRank(event[i].key) = 1
          /\ Indices(i, "analyze") # {} => StageRank(event[i].key) = 2
          /\ Indices(i, "notify") # {} => StageRank(event[i].key) = 3
          /\ Cardinality(StageCalls(i)) <= 1
          \* what is written routes to the next stage, and to that alone
          /\ \A k \in WriteCalls(i) :
                /\ StageRank(calls[i][k].key) = StageRank(event[i].key) + 1
                /\ StageRank(calls[i][k].key) \in {2, 3}
                /\ calls[i][k].op = "put" <=> Indices(i, "analyze") # {}
          /\ (Indices(i, "transcribe") = {} /\ Indices(i, "analyze") = {})
             => WriteCalls(i) = {}
    \* the bucket holds the upload and what transcribe's job and analyze wrote
    /\ Cardinality(Uploads) = 1
    /\ \A key \in DOMAIN bucket \ Uploads : \A up \in Uploads :
          StageRank(key) > StageRank(up)
    /\ Cardinality(Started) <= 3

\* no invocation is running and no object waits for its event
Quiet ==
    /\ \A i \in Inv4 : pc[i] \in {"idle", "done"}
    /\ \A key \in DOMAIN bucket : \E i \in Started : event[i].key = key

C24_ChainEnds == []NoLoop /\ <>[]Quiet

\* the longest chain: three invocations have run to their end, transcribe,
\* analyze and notify, the fourth was never triggered
C24_Witness ==
    /\ Started = {"i1", "i2", "i3"}
    /\ \A i \in Started : Done(i) /\ ret[i] = Returned(Envelope(200, "OK"))
    /\ Indices("i1", "transcribe") # {}
    /\ Indices("i2", "analyze") # {}
    /\ Indices("i3", "notify") # {}
    /\ DOMAIN bucket = {"recordings/a.mp3.old.mp3", "transcripts/a.json.old.json",
                        "output/a.txt.old.txt"}
    /\ Quiet

====
